---------------------------- MODULE Spec2Model ----------------------------
(***************************************************************************)
(* Model of backend/backend/mentor.py: a FastAPI application over two      *)
(* SQLAlchemy tables (users, transactions).  Every endpoint runs with a    *)
(* request-scoped Session supplied by get_db.  A handler is split at its   *)
(* database round trips (query, commit), so that requests served by        *)
(* different threads can interleave between them.  User and Transaction    *)
(* are taken as mapped to the tables "users" and "transactions" that their *)
(* _tablename_ attributes name.                                            *)
(***************************************************************************)
EXTENDS Integers, Sequences, FiniteSets, TLC

VARIABLES users, transactions, sessions, closes, req

vars == <<users, transactions, sessions, closes, req>>

(***************************************************************************)
(* Bounds of the model.                                                    *)
(***************************************************************************)
MaxUsers == 2
MaxTx == 2
MaxSummaryTx == 3

Workers == {"w1", "w2"}
SessionIds == 1..Cardinality(Workers)

(***************************************************************************)
(* Column(Float) / pydantic float: IEEE-754 binary64.  A value is written  *)
(* <<a, b>> and stands for the integer a * 2^53 + b with |b| far below     *)
(* 2^52, so that the pair is unique.  Every such integer of magnitude      *)
(* below 2^53 is a double; above, doubles are 2^(e-52) apart and a sum is  *)
(* rounded to the nearest one, ties to the even significand.               *)
(***************************************************************************)
D(n) == <<0, n>>
Two54 == <<2, 0>>
NegTwo54 == <<-2, 0>>

RECURSIVE Pow2(_)
Pow2(k) == IF k = 0 THEN 1 ELSE 2 * Pow2(k - 1)

FloorLog2(n) == CHOOSE k \in 0..30 : Pow2(k) <= n /\ n < Pow2(k + 1)

\* Distance between neighbouring doubles around A * 2^53 + B, A >= 0.
Ulp(A, B) ==
    LET top == IF B >= 0 THEN A ELSE A - 1
    IN  IF top <= 0 THEN 1 ELSE 2 * Pow2(FloorLog2(top))

\* Round a non-negative offset B to a multiple of u, ties to even.
RoundHalfEven(B, u) ==
    LET q == B \div u
        r == B % u
    IN  IF 2 * r < u THEN q * u
        ELSE IF 2 * r > u THEN (q + 1) * u
        ELSE IF q % 2 = 0 THEN q * u ELSE (q + 1) * u

\* The double nearest to the exact integer a * 2^53 + b.
RoundDouble(a, b) ==
    IF a = 0 THEN <<0, b>>
    ELSE LET s == IF a > 0 THEN 1 ELSE -1
             A == s * a
             B == s * b
         IN  <<a, s * RoundHalfEven(B, Ulp(A, B))>>

\* float.__add__
FAdd(x, y) == RoundDouble(x[1] + y[1], x[2] + y[2])


\* sum(...) : left-to-right float additions starting from the int 0.
RECURSIVE FSum(_)
FSum(xs) == IF xs = <<>> THEN D(0) ELSE FAdd(FSum(SubSeq(xs, 1, Len(xs) - 1)), xs[Len(xs)])

\* format(x, ".2f") of an integer-valued double.
RECURSIVE Pad9(_)
Pad9(str) == IF Len(str) >= 9 THEN str ELSE Pad9("0" \o str)

Fmt2(x) ==
    LET neg == x[1] < 0 \/ (x[1] = 0 /\ x[2] < 0)
        a   == IF neg THEN -x[1] ELSE x[1]
        b   == IF neg THEN -x[2] ELSE x[2]
        \* 2^53 = 9007199 * 10^9 + 254740992
        low == a * 254740992 + b
        hi  == a * 9007199 + (low \div 1000000000)
        lo  == low % 1000000000
        digits == IF hi = 0 THEN ToString(lo) ELSE ToString(hi) \o Pad9(ToString(lo))
    IN  (IF neg THEN "-" ELSE "") \o digits \o ".00"

(***************************************************************************)
(* Schemas.                                                                *)
(***************************************************************************)
Absent == "<omitted>"
DefaultGoal == ""
DefaultMood == "neutral"

NoArgs ==
    [email |-> "", name |-> "", monthly_income |-> D(0), financial_goal |-> "",
     mood |-> "", user_id |-> 0, amount |-> D(0), category |-> "", date |-> ""]

\* class UserCreate: absent optional fields take their defaults.
UserCreate(email, name, income, goal, mood) ==
    [NoArgs EXCEPT !.email = email, !.name = name, !.monthly_income = income,
                   !.financial_goal = IF goal = Absent THEN DefaultGoal ELSE goal,
                   !.mood = IF mood = Absent THEN DefaultMood ELSE mood]

\* class TransactionCreate
TransactionCreate(user_id, amount, category, date) ==
    [NoArgs EXCEPT !.user_id = user_id, !.amount = amount,
                   !.category = category, !.date = date]

\* The path parameter user_id of the GET endpoints.
UserIdParam(user_id) == [NoArgs EXCEPT !.user_id = user_id]

\* The path parameter user_id and the query parameter mood of update_mood.
MoodParams(user_id, mood) == [NoArgs EXCEPT !.user_id = user_id, !.mood = mood]

(***************************************************************************)
(* Tables.  A table is the sequence of its rows in rowid order; a query    *)
(* without ORDER BY scans it in that order.                                *)
(***************************************************************************)
\* class User: a row built from UserCreate, with the generated primary key.
UserRow(id, a) ==
    [id |-> id, email |-> a.email, name |-> a.name,
     monthly_income |-> a.monthly_income, financial_goal |-> a.financial_goal,
     mood |-> a.mood]

\* class Transaction: a row built from TransactionCreate.
TransactionRow(id, a) ==
    [id |-> id, user_id |-> a.user_id, amount |-> a.amount,
     category |-> a.category, date |-> a.date]

RECURSIVE MaxId(_)
MaxId(table) ==
    IF table = <<>> THEN 0
    ELSE LET m == MaxId(Tail(table))
         IN  IF Head(table).id > m THEN Head(table).id ELSE m

\* Integer primary key: one more than the largest key of the table.
NextId(table) == MaxId(table) + 1

First(rows) == IF rows = <<>> THEN <<>> ELSE <<rows[1]>>

\* The existence check finding nothing.
NoUserByEmail(email) == <<>>

\* db.query(User).filter(User.email == email).first()
UserByEmail(email) == First(SelectSeq(users, LAMBDA u : u.email = email))

\* The query without its filter.
AnyUser(user_id) == First(users)

\* db.query(User).filter(User.id == user_id).first()
UserById(user_id) == First(SelectSeq(users, LAMBDA u : u.id = user_id))

\* The query without its filter.
AllTransactions(user_id) == transactions

\* db.query(Transaction).filter(Transaction.user_id == user_id).all()
TransactionsOf(user_id) == SelectSeq(transactions, LAMBDA t : t.user_id = user_id)

\* The column without unique=True.
NoUniqueConstraint(email) == FALSE

\* Column(String, unique=True) on User.email: the INSERT is refused when a
\* row with the email exists.
UniqueEmailViolated(email) == \E i \in 1..Len(users) : users[i].email = email

\* The UPDATE without its WHERE.
SetMoodOfAll(table, user_id, mood) ==
    [i \in 1..Len(table) |-> [table[i] EXCEPT !.mood = mood]]

\* UPDATE users SET mood = ? WHERE id = ?
SetMood(table, user_id, mood) ==
    [i \in 1..Len(table) |->
        IF table[i].id = user_id THEN [table[i] EXCEPT !.mood = mood] ELSE table[i]]

(***************************************************************************)
(* user_summary and mentor_advice, the computed parts.                     *)
(***************************************************************************)
Amounts(txs) == [i \in 1..Len(txs) |-> txs[i].amount]

HasKey(categories, c) == \E i \in 1..Len(categories) : categories[i].category = c

\* A lookup that always takes the default.
GetDefault(categories, c) == D(0)

\* categories.get(c, 0)
Get(categories, c) ==
    IF HasKey(categories, c)
    THEN (CHOOSE e \in {categories[i] : i \in 1..Len(categories)} : e.category = c).amount
    ELSE D(0)

\* categories[c] = v : a dict keeps the insertion order of its keys.
Put(categories, c, v) ==
    IF HasKey(categories, c)
    THEN [i \in 1..Len(categories) |->
            IF categories[i].category = c THEN [category |-> c, amount |-> v]
            ELSE categories[i]]
    ELSE Append(categories, [category |-> c, amount |-> v])

RECURSIVE Accumulate(_, _)
Accumulate(txs, categories) ==
    IF txs = <<>> THEN categories
    ELSE LET t == Head(txs)
         IN  Accumulate(Tail(txs),
                 Put(categories, t.category, FAdd(Get(categories, t.category), t.amount)))

SummaryOf(db_user, txs) ==
    [user |-> db_user.name,
     financial_goal |-> db_user.financial_goal,
     total_spent |-> FSum(Amounts(txs)),
     category_breakdown |-> Accumulate(txs, <<>>)]

BaseAdvice == "Keep up the good work! Consider investing extra funds if you're under budget."
StressAdvice == " Take a deep breath before making new purchases."

\* The mood compared without regard to case.
AdviceIgnoringCase(user, txs) ==
    [summary |-> user.name \o " has spent " \o Fmt2(FSum(Amounts(txs))) \o " this month.",
     advice  |-> IF user.mood \in {"stressed", "Stressed"}
                 THEN BaseAdvice \o StressAdvice ELSE BaseAdvice]

AdviceOf(user, txs) ==
    [summary |-> user.name \o " has spent " \o Fmt2(FSum(Amounts(txs))) \o " this month.",
     advice  |-> IF user.mood = "stressed" THEN BaseAdvice \o StressAdvice ELSE BaseAdvice]

(***************************************************************************)
(* Requests.  req[w] is the request the worker thread w is serving: the    *)
(* endpoint, its validated input, the position in the handler, the Session *)
(* get_db yielded, the row the first query loaded, and the response.       *)
(***************************************************************************)
Idle ==
    [pc |-> "idle", op |-> "none", args |-> NoArgs, db |-> 0,
     db_user |-> <<>>, status |-> 0, result |-> <<>>]

InFlight(op) == {w \in Workers : req[w].pc # "idle" /\ req[w].op = op}

\* SessionLocal(): a new Session object, distinct from every Session a
\* request still holds.
SharedSession == CHOOSE s \in SessionIds : \A t \in SessionIds : s <= t
SessionLocal == CHOOSE s \in SessionIds :
                    /\ \A w \in Workers : req[w].db # s
                    /\ \A t \in SessionIds : (\A w \in Workers : req[w].db # t) => s <= t

Raise(w, code) ==
    req' = [req EXCEPT ![w].pc = "raised", ![w].status = code]

Return(w, value) ==
    req' = [req EXCEPT ![w].pc = "returned", ![w].status = 200, ![w].result = value]

Init ==
    /\ users = <<>>
    /\ transactions = <<>>
    /\ sessions = [s \in SessionIds |-> "unused"]
    /\ closes = [s \in SessionIds |-> 0]
    /\ req = [w \in Workers |-> Idle]

\* A request arrives at worker w; Depends(get_db) runs get_db up to its yield.
Dispatch(w, op, a) ==
    /\ req[w].pc = "idle"
    /\ op = "create_user" => Len(users) + Cardinality(InFlight(op)) < MaxUsers
    /\ op = "add_transaction" => Len(transactions) + Cardinality(InFlight(op)) < MaxTx
    /\ LET db == SessionLocal
       IN  /\ sessions' = [sessions EXCEPT ![db] = "open"]
           /\ closes' = [closes EXCEPT ![db] = 0]
           /\ req' = [req EXCEPT ![w] = [Idle EXCEPT !.pc = "handler", !.op = op,
                                                      !.args = a, !.db = db]]
    /\ UNCHANGED <<users, transactions>>

\* get_db closing the Session after the yield without try/finally: an
\* exception thrown into the generator skips the close.
GetDbNoFinally(w) ==
    /\ req[w].pc \in {"returned", "raised"}
    /\ IF req[w].pc = "returned"
       THEN /\ sessions' = [sessions EXCEPT ![req[w].db] = "closed"]
            /\ closes' = [closes EXCEPT ![req[w].db] = @ + 1]
       ELSE UNCHANGED <<sessions, closes>>
    /\ req' = [req EXCEPT ![w] = Idle]
    /\ UNCHANGED <<users, transactions>>

\* get_db after the yield: finally db.close(); the response leaves the worker.
GetDbFinally(w) ==
    /\ req[w].pc \in {"returned", "raised"}
    /\ sessions' = [sessions EXCEPT ![req[w].db] = "closed"]
    /\ closes' = [closes EXCEPT ![req[w].db] = @ + 1]
    /\ req' = [req EXCEPT ![w] = Idle]
    /\ UNCHANGED <<users, transactions>>

At(w, op, pc) == req[w].pc = pc /\ req[w].op = op

CreateUserQuery(w) ==
    /\ At(w, "create_user", "handler")
    /\ LET db_user == UserByEmail(req[w].args.email)
       IN  IF db_user # <<>> THEN Raise(w, 400)
           ELSE req' = [req EXCEPT ![w].pc = "commit"]
    /\ UNCHANGED <<users, transactions, sessions, closes>>

\* db.add, db.commit, db.refresh, return.  The INSERT fails with an
\* IntegrityError, which no handler catches, when the email is taken.
CreateUserCommit(w) ==
    /\ At(w, "create_user", "commit")
    /\ IF UniqueEmailViolated(req[w].args.email)
       THEN /\ Raise(w, 500)
            /\ UNCHANGED users
       ELSE LET db_user == UserRow(NextId(users), req[w].args)
            IN  /\ users' = Append(users, db_user)
                /\ Return(w, <<db_user>>)
    /\ UNCHANGED <<transactions, sessions, closes>>

GetUser(w) ==
    /\ At(w, "get_user", "handler")
    /\ LET db_user == UserById(req[w].args.user_id)
       IN  IF db_user = <<>> THEN Raise(w, 404) ELSE Return(w, db_user)
    /\ UNCHANGED <<users, transactions, sessions, closes>>

\* add_transaction without the existence check on the user.
AddTransactionNoCheck(w) ==
    /\ At(w, "add_transaction", "handler")
    /\ req' = [req EXCEPT ![w].pc = "commit", ![w].db_user = UserById(req[w].args.user_id)]
    /\ UNCHANGED <<users, transactions, sessions, closes>>

AddTransactionQuery(w) ==
    /\ At(w, "add_transaction", "handler")
    /\ LET db_user == UserById(req[w].args.user_id)
       IN  IF db_user = <<>> THEN Raise(w, 404)
           ELSE req' = [req EXCEPT ![w].pc = "commit", ![w].db_user = db_user]
    /\ UNCHANGED <<users, transactions, sessions, closes>>

AddTransactionCommit(w) ==
    /\ At(w, "add_transaction", "commit")
    /\ LET db_tx == TransactionRow(NextId(transactions), req[w].args)
       IN  /\ transactions' = Append(transactions, db_tx)
           /\ Return(w, <<db_tx>>)
    /\ UNCHANGED <<users, sessions, closes>>

GetTransactions(w) ==
    /\ At(w, "get_transactions", "handler")
    /\ Return(w, TransactionsOf(req[w].args.user_id))
    /\ UNCHANGED <<users, transactions, sessions, closes>>

UserSummaryQuery(w) ==
    /\ At(w, "user_summary", "handler")
    /\ LET db_user == UserById(req[w].args.user_id)
       IN  IF db_user = <<>> THEN Raise(w, 404)
           ELSE req' = [req EXCEPT ![w].pc = "query2", ![w].db_user = db_user]
    /\ UNCHANGED <<users, transactions, sessions, closes>>

UserSummaryCompute(w) ==
    /\ At(w, "user_summary", "query2")
    /\ Return(w, <<SummaryOf(req[w].db_user[1], TransactionsOf(req[w].args.user_id))>>)
    /\ UNCHANGED <<users, transactions, sessions, closes>>

UpdateMoodQuery(w) ==
    /\ At(w, "update_mood", "handler")
    /\ LET user == UserById(req[w].args.user_id)
       IN  IF user = <<>> THEN Raise(w, 404)
           ELSE req' = [req EXCEPT ![w].pc = "commit", ![w].db_user = user]
    /\ UNCHANGED <<users, transactions, sessions, closes>>

UpdateMoodCommit(w) ==
    /\ At(w, "update_mood", "commit")
    /\ users' = SetMood(users, req[w].args.user_id, req[w].args.mood)
    /\ Return(w, <<[user_id |-> req[w].args.user_id, mood |-> req[w].args.mood]>>)
    /\ UNCHANGED <<transactions, sessions, closes>>

MentorAdviceQuery(w) ==
    /\ At(w, "mentor_advice", "handler")
    /\ LET user == UserById(req[w].args.user_id)
       IN  IF user = <<>> THEN Raise(w, 404)
           ELSE req' = [req EXCEPT ![w].pc = "query2", ![w].db_user = user]
    /\ UNCHANGED <<users, transactions, sessions, closes>>

MentorAdviceCompute(w) ==
    /\ At(w, "mentor_advice", "query2")
    /\ Return(w, <<AdviceOf(req[w].db_user[1], TransactionsOf(req[w].args.user_id))>>)
    /\ UNCHANGED <<users, transactions, sessions, closes>>

(***************************************************************************)
(* Specifications.                                                         *)
(***************************************************************************)
Handle(w) ==
    \/ CreateUserQuery(w)
    \/ CreateUserCommit(w)
    \/ GetUser(w)
    \/ AddTransactionQuery(w)
    \/ AddTransactionCommit(w)
    \/ GetTransactions(w)
    \/ UserSummaryQuery(w)
    \/ UserSummaryCompute(w)
    \/ UpdateMoodQuery(w)
    \/ UpdateMoodCommit(w)
    \/ MentorAdviceQuery(w)
    \/ MentorAdviceCompute(w)
    \/ GetDbFinally(w)

Emails == {"ann@x.io", "bob@x.io"}
Names == {"Ann"}
Incomes == {D(1000)}
Goals == {Absent, "save"}
RegisterMoods == {Absent, "stressed"}
Moods == {"neutral", "stressed", "Stressed", ""}
UserIds == 1..(MaxUsers + 1)
TxAmounts == {D(-20)}
Categories == {"food"}
Dates == {"2024-01-05"}

Readers == {"get_user", "get_transactions", "user_summary", "mentor_advice"}

Requests(emails, goals, regMoods, moods, amounts, categories) ==
    {<<"create_user", UserCreate(e, n, i, g, m)>> :
        e \in emails, n \in Names, i \in Incomes, g \in goals, m \in regMoods}
    \cup {<<"add_transaction", TransactionCreate(u, a, c, d)>> :
        u \in UserIds, a \in amounts, c \in categories, d \in Dates}
    \cup {<<"update_mood", MoodParams(u, m)>> : u \in UserIds, m \in moods}
    \cup {<<op, UserIdParam(u)>> : op \in Readers, u \in UserIds}

AllIdle == \A w \in Workers : req[w].pc = "idle"

\* One request at a time: a request is dispatched when none is being served.
Arrive(w) ==
    \E r \in Requests(Emails, Goals, RegisterMoods, Moods, TxAmounts, Categories) :
        AllIdle /\ Dispatch(w, r[1], r[2])

Next == \E w \in Workers : Arrive(w) \/ Handle(w)

Spec == Init /\ [][Next]_vars

\* Requests served concurrently by the worker threads.
ArriveAnyTime(w) ==
    \E r \in Requests(Emails, {Absent}, {Absent}, {"stressed"}, {D(50)}, Categories) :
        Dispatch(w, r[1], r[2])

ConcNext == \E w \in Workers : ArriveAnyTime(w) \/ Handle(w)

ConcSpec == Init /\ [][ConcNext]_vars

\* Few enough requests for the liveness check: one email, one mood.
ArriveFew(w) ==
    \E r \in Requests({"ann@x.io"}, {Absent}, {Absent}, {"stressed"}, {D(50)}, Categories) :
        Dispatch(w, r[1], r[2])

FairNext == \E w \in Workers : ArriveFew(w) \/ Handle(w)

\* Every worker thread that is serving a request gets to run.
FairSpec == Init /\ [][FairNext]_vars /\ \A w \in Workers : WF_vars(Handle(w))

(***************************************************************************)
(* user_summary over stored tables drawn from bounded sets: two registered *)
(* users and up to MaxSummaryTx recorded transactions, among them amounts  *)
(* beyond the range in which every integer is a double.                    *)
(***************************************************************************)
SummaryAmounts == {D(50), D(-20), D(30), Two54, NegTwo54}

SummaryUsers ==
    <<UserRow(1, UserCreate("ann@x.io", "Ann", D(1000), "save", Absent)),
      UserRow(2, UserCreate("bob@x.io", "Ann", D(1000), Absent, "stressed"))>>

SummaryTxInputs ==
    {TransactionCreate(1, a, c, d) : a \in SummaryAmounts, c \in {"food", "rent"}, d \in Dates}
    \cup {TransactionCreate(2, D(50), "food", d) : d \in Dates}

TxTables(n) ==
    {[i \in 1..n |-> TransactionRow(i, f[i])] : f \in [1..n -> SummaryTxInputs]}

SummaryInit ==
    /\ users = SummaryUsers
    /\ transactions \in UNION {TxTables(n) : n \in 0..MaxSummaryTx}
    /\ sessions = [s \in SessionIds |-> IF s = 1 THEN "closed" ELSE "unused"]
    /\ closes = [s \in SessionIds |-> IF s = 1 THEN 1 ELSE 0]
    /\ req = [w \in Workers |-> Idle]

ArriveSummary(w) ==
    \E u \in UserIds : AllIdle /\ Dispatch(w, "user_summary", UserIdParam(u))

SummaryNext ==
    \E w \in Workers :
        ArriveSummary(w) \/ UserSummaryQuery(w) \/ UserSummaryCompute(w) \/ GetDbFinally(w)

SummarySpec == SummaryInit /\ [][SummaryNext]_vars

(***************************************************************************)
(* Properties.                                                             *)
(***************************************************************************)
Stepped(w) == req'[w] # req[w]

StoredIds == {users[i].id : i \in 1..Len(users)}

WithEmail(table, e) == {i \in 1..Len(table) : table[i].email = e}

TablesUnchanged == users' = users /\ transactions' = transactions

\* C1: a Register User call made when no stored User has the email succeeds
\* and adds exactly one User with it; a call made when a User with the email
\* is stored fails with 400 and leaves the stored Users as they were.
C1_RegisterThenConflict ==
    [][\A w \in Workers :
        LET e == req[w].args.email
        IN  /\ (At(w, "create_user", "handler") /\ Stepped(w)) =>
                  IF WithEmail(users, e) # {}
                  THEN /\ req'[w].pc = "raised"
                       /\ req'[w].status = 400
                       /\ req'[w].result = <<>>
                       /\ TablesUnchanged
                  ELSE /\ req'[w].pc = "commit"
                       /\ TablesUnchanged
            /\ (At(w, "create_user", "commit") /\ Stepped(w)) =>
                  /\ req'[w].pc = "returned"
                  /\ req'[w].status = 200
                  /\ Len(users') = Len(users) + 1
                  /\ \A i \in 1..Len(users) : users'[i] = users[i]
                  /\ users'[Len(users')].email = e
                  /\ Cardinality(WithEmail(users', e)) = 1
                  /\ req'[w].result = <<users'[Len(users')]>>
            /\ (At(w, "create_user", "raised") /\ Stepped(w)) => TablesUnchanged
    ]_vars

C1_Witness ==
    \E w \in Workers :
        /\ At(w, "create_user", "raised")
        /\ req[w].status = 400
        /\ Cardinality(WithEmail(users, req[w].args.email)) = 1

\* C2: Record Transaction for a user_id that matches no stored User fails
\* with 404 and changes neither table; for a stored User it adds exactly one
\* Transaction, with the given user_id, amount, category and date.
C2_RecordTransaction ==
    [][\A w \in Workers :
        LET a == req[w].args
        IN  /\ (At(w, "add_transaction", "handler") /\ Stepped(w)) =>
                  IF a.user_id \notin StoredIds
                  THEN /\ req'[w].pc = "raised"
                       /\ req'[w].status = 404
                       /\ req'[w].result = <<>>
                       /\ TablesUnchanged
                  ELSE /\ req'[w].pc = "commit"
                       /\ TablesUnchanged
            /\ (At(w, "add_transaction", "commit") /\ Stepped(w)) =>
                  /\ req'[w].pc = "returned"
                  /\ users' = users
                  /\ Len(transactions') = Len(transactions) + 1
                  /\ \A i \in 1..Len(transactions) : transactions'[i] = transactions[i]
                  /\ LET t == transactions'[Len(transactions')]
                     IN  /\ t.user_id = a.user_id
                         /\ t.amount = a.amount
                         /\ t.category = a.category
                         /\ t.date = a.date
                         /\ \A i \in 1..Len(transactions) : transactions[i].id # t.id
                         /\ req'[w].result = <<t>>
            /\ (At(w, "add_transaction", "raised") /\ Stepped(w)) => TablesUnchanged
    ]_vars

C2_Witness ==
    \E w \in Workers :
        /\ At(w, "add_transaction", "raised")
        /\ req[w].status = 404
        /\ req[w].args.user_id \notin StoredIds
        /\ users # <<>>

\* Position of the row with the given id in a table.
PositionOf(table, id) == CHOOSE i \in 1..Len(table) : table[i].id = id

\* C3: List Transactions never fails; it returns exactly the stored
\* Transactions of the user_id, each once, in creation order, and the empty
\* sequence for a user_id that matches no stored User.
C3_ListTransactions ==
    \A w \in Workers :
        /\ ~At(w, "get_transactions", "raised")
        /\ At(w, "get_transactions", "returned") =>
              LET r == req[w].result
                  u == req[w].args.user_id
              IN  /\ req[w].status = 200
                  /\ \A i \in 1..Len(r) :
                        r[i].user_id = u /\ \E j \in 1..Len(transactions) : transactions[j] = r[i]
                  /\ \A j \in 1..Len(transactions) :
                        transactions[j].user_id = u =>
                            Cardinality({i \in 1..Len(r) : r[i] = transactions[j]}) = 1
                  /\ \A i, k \in 1..Len(r) :
                        i < k => PositionOf(transactions, r[i].id) < PositionOf(transactions, r[k].id)
                  /\ u \notin StoredIds => r = <<>>

C3_Witness ==
    \E w \in Workers :
        /\ At(w, "get_transactions", "returned")
        /\ req[w].args.user_id \notin StoredIds
        /\ req[w].result = <<>>
        /\ transactions # <<>>

(***************************************************************************)
(* Sums over the stored transactions, by position.                         *)
(***************************************************************************)
TxOf(u) == {i \in 1..Len(transactions) : transactions[i].user_id = u}

TxOfIn(u, c) == {i \in TxOf(u) : transactions[i].category = c}

Last(S) == CHOOSE m \in S : \A i \in S : i <= m

\* The amounts at the positions S added as doubles, in table order.
RECURSIVE FloatSumAt(_)
FloatSumAt(S) ==
    IF S = {} THEN D(0)
    ELSE FAdd(FloatSumAt(S \ {Last(S)}), transactions[Last(S)].amount)

\* The amounts at the positions S added as integers, without rounding.
RECURSIVE ExactSumAt(_)
ExactSumAt(S) ==
    IF S = {} THEN D(0)
    ELSE LET rest == ExactSumAt(S \ {Last(S)})
             x == transactions[Last(S)].amount
         IN  <<rest[1] + x[1], rest[2] + x[2]>>

RECURSIVE ValuesSum(_)
ValuesSum(breakdown) ==
    IF breakdown = <<>> THEN D(0)
    ELSE FAdd(ValuesSum(SubSeq(breakdown, 1, Len(breakdown) - 1)),
              breakdown[Len(breakdown)].amount)

\* Every amount at the positions S is an integer below 2^53 in magnitude.
SmallAmounts(S) == \A i \in S : transactions[i].amount[1] = 0

KeysOf(breakdown) == {breakdown[i].category : i \in 1..Len(breakdown)}

KeysAreTheCategories(breakdown, u) ==
    /\ KeysOf(breakdown) = {transactions[i].category : i \in TxOf(u)}
    /\ \A i, j \in 1..Len(breakdown) :
          breakdown[i].category = breakdown[j].category => i = j

Stored(user_id) == users[PositionOf(users, user_id)]

\* C5: Mentor Advice for a stored user is the base text followed by the
\* stress sentence exactly when the stored mood is "stressed", and the base
\* text alone for any other mood; the stored mood is the one the latest
\* Update Mood for the user wrote, or else the one given at registration.
C5_MentorAdvice ==
    /\ [](\A w \in Workers :
            At(w, "mentor_advice", "returned") =>
                req[w].result[1].advice =
                    IF Stored(req[w].args.user_id).mood = "stressed"
                    THEN "Keep up the good work! Consider investing extra funds if you're under budget. Take a deep breath before making new purchases."
                    ELSE "Keep up the good work! Consider investing extra funds if you're under budget.")
    /\ [][/\ \A w \in Workers :
                (At(w, "update_mood", "commit") /\ Stepped(w)) =>
                    /\ req[w].args.user_id \in {users'[i].id : i \in 1..Len(users')}
                    /\ users'[PositionOf(users', req[w].args.user_id)].mood = req[w].args.mood
          /\ \A i \in 1..Len(users') :
                IF i <= Len(users)
                THEN users'[i].mood # users[i].mood =>
                        \E w \in Workers :
                            /\ At(w, "update_mood", "commit") /\ Stepped(w)
                            /\ req[w].args.user_id = users[i].id
                ELSE \E w \in Workers :
                        /\ At(w, "create_user", "commit") /\ Stepped(w)
                        /\ users'[i].mood = req[w].args.mood
       ]_vars

C5_Witness ==
    \E w \in Workers :
        /\ At(w, "mentor_advice", "returned")
        /\ Stored(req[w].args.user_id).mood = "stressed"
        /\ req[w].result[1].advice = BaseAdvice \o StressAdvice
        /\ \E i \in 1..Len(users) : users[i].mood = "Stressed"

\* C6: Update Mood on a stored user sets that user's mood to the given
\* string and echoes {user_id, mood}; the user's other fields, every other
\* User and every Transaction stay as they were; Fetch User returns the
\* stored row; no other operation changes a stored User.
C6_UpdateMoodFrame ==
    [][/\ \A w \in Workers :
            LET u == req[w].args.user_id
                m == req[w].args.mood
            IN  /\ (At(w, "update_mood", "commit") /\ Stepped(w)) =>
                      /\ u \in StoredIds
                      /\ Len(users') = Len(users)
                      /\ \A i \in 1..Len(users) :
                            users'[i] = IF users[i].id = u
                                        THEN [users[i] EXCEPT !.mood = m]
                                        ELSE users[i]
                      /\ transactions' = transactions
                      /\ req'[w].pc = "returned"
                      /\ req'[w].result = <<[user_id |-> u, mood |-> m]>>
                /\ (At(w, "get_user", "handler") /\ Stepped(w) /\ u \in StoredIds) =>
                      /\ req'[w].pc = "returned"
                      /\ req'[w].result = <<Stored(u)>>
                      /\ TablesUnchanged
       /\ Len(users') >= Len(users)
       /\ \A i \in 1..Len(users) :
            users'[i] # users[i] =>
                \E w \in Workers : At(w, "update_mood", "commit") /\ Stepped(w)
    ]_vars

C6_Witness ==
    \E w \in Workers :
        /\ At(w, "update_mood", "returned")
        /\ req[w].args.mood = "Stressed"
        /\ Len(users) = 2
        /\ Stored(req[w].args.user_id).mood = "Stressed"
        /\ Stored(req[w].args.user_id).financial_goal = "save"
        /\ \E i \in 1..Len(users) : users[i].mood = "neutral"
        /\ transactions # <<>>

ChecksTheUser == {"get_user", "user_summary", "update_mood", "mentor_advice"}

\* C7: Fetch User, User Summary, Update Mood and Mentor Advice fail with 404,
\* without a result and without changing a table, exactly when the user
\* identifier matches no stored User.
C7_NotFound ==
    [][\A w \in Workers :
        req[w].op \in ChecksTheUser /\ Stepped(w) =>
            /\ req[w].pc = "handler" =>
                  IF req[w].args.user_id \notin StoredIds
                  THEN /\ req'[w].pc = "raised"
                       /\ req'[w].status = 404
                       /\ req'[w].result = <<>>
                       /\ TablesUnchanged
                  ELSE req'[w].pc \in {"returned", "commit", "query2"}
            /\ req[w].pc \in {"commit", "query2"} =>
                  req'[w].pc = "returned" /\ req'[w].status = 200
            /\ req[w].pc = "raised" => TablesUnchanged
    ]_vars

C7_Witness ==
    \E w \in Workers :
        /\ At(w, "user_summary", "raised")
        /\ req[w].status = 404
        /\ req[w].args.user_id \notin StoredIds
        /\ users # <<>>

Serving(w) == req[w].pc # "idle"

SessionsScoped ==
    /\ \A w \in Workers :
          Serving(w) =>
              /\ req[w].db \in SessionIds
              /\ sessions[req[w].db] = "open"
              /\ closes[req[w].db] = 0
              /\ \A v \in Workers : (v # w /\ Serving(v)) => req[v].db # req[w].db
    /\ \A s \in SessionIds :
          /\ sessions[s] = "open" => \E w \in Workers : Serving(w) /\ req[w].db = s
          /\ sessions[s] = "closed" <=> closes[s] = 1
          /\ closes[s] <= 1

\* C8: a Session is held by exactly one request being served; when the
\* handler has returned or raised, the next step of the request closes its
\* Session, once; every open Session is eventually closed, and no Session is
\* open when no request is being served.
C8_SessionReleased ==
    /\ []SessionsScoped
    /\ [][\A w \in Workers :
            (req[w].pc \in {"returned", "raised"} /\ Stepped(w)) =>
                /\ req'[w].pc = "idle"
                /\ sessions'[req[w].db] = "closed"
                /\ closes'[req[w].db] = closes[req[w].db] + 1
         ]_vars
    /\ \A s \in SessionIds : (sessions[s] = "open") ~> (sessions[s] = "closed")

C8_Witness ==
    \E w \in Workers :
        /\ req[w].pc = "raised"
        /\ sessions[req[w].db] = "open"
        /\ \E s \in SessionIds : sessions[s] = "closed" /\ closes[s] = 1

\* C9: no two stored Users have the same email, whatever the interleaving of
\* the requests; a Register User request returns a User only by inserting
\* the one row with its email, so of the requests registering one email at
\* most one returns a User.
C9_UniqueEmail ==
    /\ [](/\ \A i, j \in 1..Len(users) : users[i].email = users[j].email => i = j
          /\ \A w, v \in Workers :
                (/\ At(w, "create_user", "returned")
                 /\ At(v, "create_user", "returned")
                 /\ req[w].args.email = req[v].args.email) => w = v)
    /\ [][\A w \in Workers :
            (req[w].op = "create_user" /\ Stepped(w) /\ req'[w].pc = "returned") =>
                /\ req[w].pc = "commit"
                /\ WithEmail(users, req[w].args.email) = {}
                /\ Cardinality(WithEmail(users', req[w].args.email)) = 1
                /\ req'[w].result = <<users'[Len(users')]>>
                /\ users'[Len(users')].email = req[w].args.email
         ]_vars

\* Two requests passed the existence check; the store refused the second INSERT.
C9_Witness ==
    \E w \in Workers :
        /\ At(w, "create_user", "raised")
        /\ req[w].status = 500
        /\ Cardinality(WithEmail(users, req[w].args.email)) = 1

\* C10: every stored Transaction's user_id is the id of a stored User, and
\* no step removes a User, changes a User's id, or removes or changes a
\* stored Transaction.
C10_ReferentialIntegrity ==
    /\ [](\A i \in 1..Len(transactions) : transactions[i].user_id \in StoredIds)
    /\ [][/\ Len(transactions') >= Len(transactions)
          /\ \A i \in 1..Len(transactions) : transactions'[i] = transactions[i]
          /\ Len(users') >= Len(users)
          /\ \A i \in 1..Len(users) : users'[i].id = users[i].id
         ]_vars

C10_Witness ==
    /\ Len(users) = 2
    /\ \E i \in 1..Len(users) : users[i].mood = "stressed"
    /\ \E i \in 1..Len(transactions) : transactions[i].user_id = 2
    /\ \E w \in Workers : At(w, "add_transaction", "commit") /\ req[w].args.user_id = 1

=============================================================================
